---- MODULE Spec2Model ----
(***************************************************************************)
(* Model of musical_offer.py: a Telegram bot that queues music submissions *)
(* in pending_tracks, lets one moderator approve or reject them through a  *)
(* two-state FSM session, and records the decisions in approved_tracks and *)
(* rejected_tracks.                                                        *)
(*                                                                         *)
(* Scheduling.  The dispatcher handles every update as its own asyncio     *)
(* task.  The Supabase client is synchronous and the FSM storage is the    *)
(* dispatcher's default in-memory storage, whose coroutines never suspend, *)
(* so a task is pre-empted only while it awaits a Telegram API call.  One  *)
(* action of this model is one such atomic segment of a handler.  Handlers *)
(* whose remaining awaits only send replies are a single action.           *)
(***************************************************************************)
EXTENDS Integers, Sequences, FiniteSets, TLC

\* ---------------------------------------------------------------- bounds
MaxTracks == 4      \* rows ever inserted into pending_tracks (SpecLimit)
MaxRaceTracks == 2  \* rows ever inserted into pending_tracks (Spec)
MaxTasks == 2    \* process_moderation_comment tasks suspended at once
MaxFaults == 1   \* database and Telegram calls that raise
MaxLoad == 4        \* rows inserted, tasks suspended and calls raised, together
MaxAudio == 1    \* audio files are sent while fewer rows than this were inserted

\* ------------------------------------------------------------- constants
MODERATOR_ID == 1
DEADLINE == 1766793599

Users == {MODERATOR_ID, MODERATOR_ID + 1}

NULL == "NULL"
IDLE == "idle"
waiting_for_comment == "ModerationComment:waiting_for_comment"

\* hexdigest()[:16] of sha256(str(user_id)) for the user ids of the model
hash_user_id(user_id) ==
  CASE user_id = 1 -> "6b86b273ff34fce1"
    [] user_id = 2 -> "d4735e3a265e16ee"
    [] OTHER -> "4e07408562bedb8b"

\* ------------------------------------------------------------- messages
Commands == {"/start", "/check", "/moderate", "/tracks"}
LinkText == " https://youtu.be/x "
Texts == Commands \cup {LinkText, "hello", "/foo"}

\* str.strip()
strip(text) == IF text = LinkText THEN "https://youtu.be/x" ELSE text

\* text.startswith("/")
startswith_slash(text) == text \in Commands \cup {"/foo"}

\* any(p in text_content for p in platforms)
has_platform(text_content) == text_content \in {LinkText, strip(LinkText)}

\* message.date is an aware datetime: seconds since the epoch and the offset
\* of its zone; the bot framework builds it in UTC
Date(t) == [ts |-> t, utcoffset |-> 0]

\* datetime.fromisoformat(date.isoformat()).replace(tzinfo=timezone.utc):
\* the wall-clock reading of date, taken as a UTC time
message_time(date) == date.ts + date.utcoffset

\* the updates of the model: a track (a link or an audio file) sent before,
\* at and after the deadline; a text that is no link, a text that starts
\* with "/", a message with neither text nor audio, and the four commands
Messages ==
  {[text |-> LinkText, audio |-> NULL, date |-> Date(t)] :
     t \in {DEADLINE - 1, DEADLINE, DEADLINE + 1}}
  \cup {[text |-> NULL, audio |-> "file1", date |-> Date(t)] :
     t \in {DEADLINE - 1, DEADLINE, DEADLINE + 1}}
  \cup {[text |-> t, audio |-> NULL, date |-> Date(DEADLINE)] : t \in {"hello", "/foo"}}
  \cup {[text |-> NULL, audio |-> NULL, date |-> Date(DEADLINE)]}
  \cup {[text |-> t, audio |-> NULL, date |-> Date(DEADLINE + 1)] : t \in Commands}

\* ------------------------------------------------------------------ state
VARIABLES
  pending_tracks,    \* table pending_tracks: a set of rows
  approved_tracks,   \* table approved_tracks: the inserted records, in order
  rejected_tracks,   \* table rejected_tracks: the inserted records, in order
  approved_src,      \* history: pending id each approved record was made from
  rejected_src,      \* history: pending id each rejected record was made from
  db_seq,            \* rows inserted into pending_tracks so far (id, created_at)
  fsm_state,         \* FSM state of each user's session
  fsm_data,          \* FSM data of each user's session
  tasks,             \* suspended process_moderation_comment tasks
  presented,         \* ids of the tracks whose approve/reject buttons were sent
  faults,            \* database and Telegram calls that raised so far
  reads,             \* tables the segment that ran last has sent a select to
  last               \* the segment that ran last and what it sent

vars == <<pending_tracks, approved_tracks, rejected_tracks, approved_src,
          rejected_src, db_seq, fsm_state, fsm_data, tasks, presented,
          faults, reads, last>>

tables == <<pending_tracks, approved_tracks, rejected_tracks, approved_src,
            rejected_src, db_seq>>
sessions == <<fsm_state, fsm_data>>

PendingColumns ==
  {"id", "created_at", "user_id", "user_hash", "type", "file_id", "url", "url_title"}

\* the row the database stores for an inserted dict: absent columns are NULL,
\* id and created_at are generated
pending_row(track_data, seq) ==
  [c \in PendingColumns |->
     IF c \in {"id", "created_at"} THEN seq
     ELSE IF c \in DOMAIN track_data THEN track_data[c] ELSE NULL]


\* the empty dict of a cleared session
EmptyDict == [k \in {} |-> NULL]

\* what the last segment was: its handler, the timestamp of the message that
\* was received as a track or refused as late, the message it sent, the
\* track it was about, and whether the Telegram call it resumed from had
\* raised
Step(h, user, ts, reply, track, raised) ==
  [h |-> h, ts |-> ts, reply |-> reply, track |-> track, raised |-> raised]

Init ==
  /\ pending_tracks = {}
  /\ approved_tracks = <<>>
  /\ rejected_tracks = <<>>
  /\ approved_src = <<>>
  /\ rejected_src = <<>>
  /\ db_seq = 0
  /\ fsm_state = [u \in Users |-> IDLE]
  /\ fsm_data = [u \in Users |-> EmptyDict]
  /\ tasks = <<>>
  /\ presented = {}
  /\ faults = 0
  /\ reads = {}
  /\ last = Step("init", 0, 0, "none", 0, FALSE)

\* ------------------------------------------------------------- queries
\* None
NoTrack == [type |-> NULL]

\* the rows of a set in descending order of created_at
RECURSIVE order_by_created_at_desc(_)
order_by_created_at_desc(rows) ==
  IF rows = {} THEN <<>>
  ELSE LET first == CHOOSE t \in rows : \A o \in rows : t.created_at >= o.created_at
       IN <<first>> \o order_by_created_at_desc(rows \ {first})

\* the rows of a set in ascending order of created_at
RECURSIVE order_by_created_at(_)
order_by_created_at(rows) ==
  IF rows = {} THEN <<>>
  ELSE LET first == CHOOSE t \in rows : \A o \in rows : t.created_at <= o.created_at
       IN <<first>> \o order_by_created_at(rows \ {first})

\* get_all_pending_tracks on the rows the table holds; [] when the read raises
get_all_pending_tracks(rows, db_ok) ==
  IF db_ok THEN order_by_created_at(rows) ELSE <<>>

\* a lookup that does not filter by id
get_track_by_id_unfiltered(rows, track_id, db_ok) ==
  IF db_ok /\ rows # {}
  THEN CHOOSE t \in rows : TRUE
  ELSE NoTrack

\* get_track_by_id on the rows the table holds; None when the read raises
get_track_by_id(rows, track_id, db_ok) ==
  IF db_ok /\ \E t \in rows : t.id = track_id
  THEN CHOOSE t \in rows : t.id = track_id
  ELSE NoTrack

\* len(select("id").eq("user_hash", user_hash)) on pending_tracks
pending_count(user_hash) ==
  Cardinality({t \in pending_tracks : t.user_hash = user_hash})

\* len(select("id").eq("user_hash", user_hash)) on approved_tracks
approved_count(user_hash) ==
  Cardinality({i \in 1..Len(approved_tracks) : approved_tracks[i].user_hash = user_hash})

\* a total that counts the rejected records too
total_sent_with_rejected(user_hash) ==
  pending_count(user_hash) + approved_count(user_hash)
  + Cardinality({i \in 1..Len(rejected_tracks) : rejected_tracks[i].user_hash = user_hash})

\* total_sent of cmd_start and handle_message
total_sent(user_hash) == pending_count(user_hash) + approved_count(user_hash)

\* a limit test that is off by one
limit_reached_above(total) == total > 3

\* the limit test of handle_message
limit_reached(total) == total >= 3

\* a deadline test that excludes the deadline itself
past_deadline_or_at(date) == message_time(date) >= DEADLINE

\* the deadline test of handle_message
past_deadline(date) == message_time(date) > DEADLINE

\* a role test that lets every user through
is_moderator_anyone(user_id) == user_id \in Users

\* the role test of the moderator's handlers
is_moderator(user_id) == user_id = MODERATOR_ID

Max(a, b) == IF a >= b THEN a ELSE b

\* the tables a try block with two selects has sent a select to: both, or
\* the first alone when it is the one that raised
Selects(first, second, ok) ==
  IF ok THEN {{first, second}} ELSE {{first}, {first, second}}

\* a call that raises counts against the bound on failures
Failed(ok) == IF ok THEN 0 ELSE 1

\* ------------------------------------------------------------- /start
cmd_start(u, msg) ==
  /\ msg.text = "/start"
  /\ \E db_ok \in BOOLEAN :
       LET user_hash == hash_user_id(u)
           remaining == Max(0, 3 - total_sent(user_hash))
       IN /\ last' = IF db_ok THEN Step("cmd_start", u, 0, "welcome", remaining, FALSE)
                     ELSE Step("cmd_start", u, 0, "load_error", 0, FALSE)
          /\ faults' = faults + Failed(db_ok)
          /\ reads' \in Selects("pending_tracks", "approved_tracks", db_ok)
  /\ UNCHANGED <<tables, sessions, tasks, presented>>

\* ------------------------------------------------- the catch-all handler
\* track_data of handle_message; NoTrack (None) when the message is no track
track_data(msg, text_content) ==
  IF msg.audio # NULL THEN [type |-> "audio", file_id |-> msg.audio]
  ELSE IF text_content # NULL
       THEN [type |-> "url", url |-> text_content, url_title |-> "Ssylka na trek"]
       ELSE NoTrack

handle_message(u, msg) ==
  /\ msg.text \notin Commands
  /\ fsm_state[u] # waiting_for_comment
  /\ LET text_content == IF msg.text # NULL THEN strip(msg.text) ELSE NULL
         user_hash == hash_user_id(u)
         total == total_sent(user_hash)
         data == track_data(msg, text_content)
         counted == {"pending_tracks", "approved_tracks"}
         refuse(reply, failed, selects) ==
           /\ reads' = selects
           /\ last' = Step("handle_message", u,
                           IF reply = "deadline" THEN msg.date.ts ELSE 0,
                           reply, 0, FALSE)
           /\ faults' = faults + failed
           /\ UNCHANGED tables
     IN IF fsm_state[u] = waiting_for_comment THEN refuse("ignored_state", 0, {})
        ELSE IF msg.text # NULL /\ startswith_slash(msg.text)
          THEN refuse("ignored_command", 0, {})
        ELSE IF past_deadline(msg.date) THEN refuse("deadline", 0, {})
        ELSE IF msg.text # NULL /\ ~has_platform(text_content)
          THEN refuse("not_a_link", 0, {})
        ELSE \E read_ok \in BOOLEAN :
          IF ~read_ok
          THEN \E selects \in Selects("pending_tracks", "approved_tracks", FALSE) :
                 refuse("limit_check_error", 1, selects)
          ELSE IF limit_reached(total) THEN refuse("limit", 0, counted)
          ELSE IF data = NoTrack THEN refuse("not_a_track", 0, counted)
          ELSE \E insert_ok \in BOOLEAN :
            IF ~insert_ok THEN refuse("save_error", 1, counted)
            ELSE /\ pending_tracks' = pending_tracks \cup
                      {pending_row(data @@ [user_id |-> u, user_hash |-> user_hash],
                                   db_seq + 1)}
                 /\ db_seq' = db_seq + 1
                 /\ reads' = counted
                 /\ last' = Step("handle_message", u, msg.date.ts, "received",
                                 db_seq + 1, FALSE)
                 /\ UNCHANGED <<approved_tracks, rejected_tracks, approved_src,
                                rejected_src, faults>>
  /\ UNCHANGED <<sessions, tasks, presented>>

\* ------------------------------------------------ the moderator's commands
\* callback_data of the two buttons of send_moderation_message
callback_data(action, track_db_id) == <<action, "_", track_db_id>>

\* callback.data.split("_", 1)
split(data) == <<data[1], data[3]>>

\* the buttons of the message send_moderation_message sends
buttons(track_db_id) ==
  {callback_data("approve", track_db_id), callback_data("reject", track_db_id)}

\* send_moderation_message: the buttons are on the moderator's screen when
\* the send succeeds; otherwise an error text is sent instead
send_moderation_message(h, u, track, track_db_id, send_ok) ==
  IF send_ok
  THEN /\ presented' = presented \cup {split(b)[2] : b \in buttons(track_db_id)}
       /\ last' = Step(h, u, 0, "moderation_message", track_db_id, FALSE)
  ELSE /\ presented' = presented
       /\ last' = Step(h, u, 0, "moderation_send_error", track_db_id, FALSE)

cmd_check(u, msg) ==
  /\ msg.text = "/check"
  /\ IF ~is_moderator(u)
     THEN /\ last' = Step("cmd_check", u, 0, "no_rights", 0, FALSE)
          /\ reads' = {}
          /\ UNCHANGED faults
     ELSE \E db_ok \in BOOLEAN :
            LET pending == get_all_pending_tracks(pending_tracks, db_ok)
            IN /\ faults' = faults + Failed(db_ok)
               /\ reads' = {"pending_tracks"}
               /\ IF pending = <<>>
                  THEN last' = Step("cmd_check", u, 0, "nothing_pending", 0, FALSE)
                  ELSE last' = Step("cmd_check", u, 0, "pending_list", Len(pending), FALSE)
  /\ UNCHANGED <<tables, sessions, tasks, presented>>

cmd_moderate(u, msg) ==
  /\ msg.text = "/moderate"
  /\ IF ~is_moderator(u)
     THEN /\ last' = Step("cmd_moderate", u, 0, "no_rights", 0, FALSE)
          /\ reads' = {}
          /\ UNCHANGED <<presented, faults>>
     ELSE \E db_ok \in BOOLEAN :
            LET pending == get_all_pending_tracks(pending_tracks, db_ok)
            IN /\ reads' = {"pending_tracks"}
               /\ IF pending # <<>>
                  THEN \E send_ok \in BOOLEAN :
                         /\ send_moderation_message("cmd_moderate", u, pending[1],
                                                    pending[1].id, send_ok)
                         /\ faults' = faults + Failed(send_ok)
                  ELSE /\ last' = Step("cmd_moderate", u, 0, "nothing_to_moderate", 0, FALSE)
                       /\ faults' = faults + Failed(db_ok)
                       /\ UNCHANGED presented
  /\ UNCHANGED <<tables, sessions, tasks>>

cmd_tracks(u, msg) ==
  /\ msg.text = "/tracks"
  /\ IF ~is_moderator(u)
     THEN /\ last' = Step("cmd_tracks", u, 0, "no_rights", 0, FALSE)
          /\ reads' = {}
          /\ UNCHANGED faults
     ELSE \E db_ok \in BOOLEAN :
            /\ last' = IF db_ok
                       THEN Step("cmd_tracks", u, 0, "tracks_list",
                                 Len(approved_tracks) + Len(rejected_tracks), FALSE)
                       ELSE Step("cmd_tracks", u, 0, "tracks_error", 0, FALSE)
            /\ faults' = faults + Failed(db_ok)
            /\ reads' \in Selects("approved_tracks", "rejected_tracks", db_ok)
  /\ UNCHANGED <<tables, sessions, tasks, presented>>

\* ------------------------------------------- the approve / reject buttons
handle_moderation(u, data) ==
  /\ IF ~is_moderator(u)
     THEN /\ last' = Step("handle_moderation", u, 0, "only_moderator", 0, FALSE)
          /\ reads' = {}
          /\ UNCHANGED <<sessions, faults>>
     ELSE \E db_ok \in BOOLEAN :
            LET action == split(data)[1]
                track_db_id == split(data)[2]
                track == get_track_by_id(pending_tracks, track_db_id, db_ok)
            IN /\ faults' = faults + Failed(db_ok)
               /\ reads' = {"pending_tracks"}
               /\ IF track = NoTrack
                  THEN /\ last' = Step("handle_moderation", u, 0, "track_not_found",
                                       track_db_id, FALSE)
                       /\ UNCHANGED sessions
                  ELSE /\ fsm_state' = [fsm_state EXCEPT ![u] = waiting_for_comment]
                       /\ fsm_data' = [fsm_data EXCEPT ![u] =
                            [track_db_id |-> track_db_id, action |-> action,
                             user_hash |-> track.user_hash] @@ @]
                       /\ last' = Step("handle_moderation", u, 0, "ask_comment",
                                       track_db_id, FALSE)
  /\ UNCHANGED <<tables, tasks, presented>>

\* ------------------------------------------ the moderator's comment (FSM)
\* a safe_track that forgets to drop user_id
safe_track_with_user_id(track) ==
  [k \in DOMAIN track \ {"id", "created_at"} |-> track[k]]

\* safe_track: the pending row without id, user_id and created_at
safe_track(track) ==
  [k \in DOMAIN track \ {"id", "user_id", "created_at"} |-> track[k]]

\* an insert that replaces the table's rows by the new record
insert_replacing(rows, record) == <<record>>

\* table.insert(record).execute() on approved_tracks or rejected_tracks
insert(rows, record) == Append(rows, record)

\* pending_tracks.delete().eq("id", track_id).execute()
delete(rows, track_id) == {t \in rows : t.id # track_id}

\* a clear that leaves the stored data
clear_data_kept(u) == fsm_data

\* state.clear()
clear_state(u) == [fsm_state EXCEPT ![u] = IDLE]
clear_data(u) == [fsm_data EXCEPT ![u] = EmptyDict]

\* "if success and user_id": the truth value of the row's user_id
truthy(user_id) == user_id # 0

\* a task of process_moderation_comment suspended in a Telegram call
Task(u, pc, track, action, next_track) ==
  [user |-> u, pc |-> pc, track |-> track, action |-> action,
   next_track |-> next_track]

Remove(i) == SubSeq(tasks, 1, i - 1) \o SubSeq(tasks, i + 1, Len(tasks))
Moved(i, pc) == [tasks EXCEPT ![i].pc = pc]

PMC == "process_moderation_comment"

\* lines 191-219: read the session, find the track, record the decision and
\* answer the moderator; the task is then suspended in that answer
process_moderation_comment(u, msg) ==
  /\ msg.text \notin Commands
  /\ fsm_state[u] = waiting_for_comment
  /\ LET data == fsm_data[u]
         track_db_id == data.track_db_id
         action == data.action
     IN \E db_ok \in BOOLEAN :
          LET track == get_track_by_id(pending_tracks, track_db_id, db_ok)
          IN IF track = NoTrack
             THEN /\ tasks' = Append(tasks, Task(u, "not_found", track, action, NoTrack))
                  /\ last' = Step(PMC, u, 0, "track_not_found", track_db_id, FALSE)
                  /\ faults' = faults + Failed(db_ok)
                  /\ UNCHANGED <<approved_tracks, rejected_tracks, approved_src,
                                 rejected_src>>
             ELSE \E insert_ok \in BOOLEAN :
               /\ faults' = faults + Failed(insert_ok)
               /\ IF ~insert_ok
                  THEN /\ tasks' = Append(tasks, Task(u, "save_error", track, action, NoTrack))
                       /\ last' = Step(PMC, u, 0, "save_error", track_db_id, FALSE)
                       /\ UNCHANGED <<approved_tracks, rejected_tracks, approved_src,
                                      rejected_src>>
                  ELSE /\ tasks' = Append(tasks, Task(u, "ack", track, action, NoTrack))
                       /\ IF action = "approve"
                          THEN /\ approved_tracks' = insert(approved_tracks, safe_track(track))
                               /\ approved_src' = Append(approved_src, track.id)
                               /\ last' = Step(PMC, u, 0, "approved", track_db_id, FALSE)
                               /\ UNCHANGED <<rejected_tracks, rejected_src>>
                          ELSE /\ rejected_tracks' = insert(rejected_tracks, safe_track(track))
                               /\ rejected_src' = Append(rejected_src, track.id)
                               /\ last' = Step(PMC, u, 0, "rejected", track_db_id, FALSE)
                               /\ UNCHANGED <<approved_tracks, approved_src>>
  /\ reads' = {"pending_tracks"}
  /\ UNCHANGED <<pending_tracks, db_seq, sessions, presented>>

\* lines 232-247: delete the pending row, clear the session, show the next
\* track or say that all are processed
finish(i, raised) ==
  LET task == tasks[i]
      u == task.user
  IN \E delete_ok, db_ok \in BOOLEAN :
       LET pending == get_all_pending_tracks(pending_tracks', db_ok)
       IN /\ faults' = faults + Failed(~raised) + Failed(delete_ok) + Failed(db_ok)
          /\ pending_tracks' = IF delete_ok THEN delete(pending_tracks, task.track.id)
                               ELSE pending_tracks
          /\ fsm_state' = clear_state(u)
          /\ fsm_data' = clear_data(u)
          /\ reads' = {"pending_tracks"}
          /\ IF pending # <<>>
             THEN /\ tasks' = [tasks EXCEPT ![i].pc = "next",
                                             ![i].next_track = pending[1]]
                  /\ last' = Step(PMC, u, 0, "next_track", pending[1].id, raised)
             ELSE /\ tasks' = Remove(i)
                  /\ last' = Step(PMC, u, 0, "all_processed", 0, raised)
          /\ UNCHANGED <<approved_tracks, rejected_tracks, approved_src, rejected_src,
                         db_seq, presented>>

\* a notification that does not look at success
after_try_notifying(i, success) ==
  LET task == tasks[i]
  IN IF truthy(task.track.user_id)
     THEN /\ tasks' = Moved(i, "notify")
          /\ last' = Step(PMC, task.user, 0,
                          IF task.action = "approve" THEN "notify_approved"
                          ELSE "notify_rejected", task.track.id, FALSE)
          /\ reads' = {}
          /\ UNCHANGED <<tables, sessions, presented, faults>>
     ELSE finish(i, FALSE)

\* lines 221-230: notify the submitter of a recorded decision, else go on
after_try(i, success) ==
  LET task == tasks[i]
  IN IF success /\ truthy(task.track.user_id)
     THEN /\ tasks' = Moved(i, "notify")
          /\ last' = Step(PMC, task.user, 0,
                          IF task.action = "approve" THEN "notify_approved"
                          ELSE "notify_rejected", task.track.id, FALSE)
          /\ reads' = {}
          /\ UNCHANGED <<tables, sessions, presented, faults>>
     ELSE finish(i, FALSE)

\* the event loop resumes a suspended task: the Telegram call it awaited
\* has returned or has raised
resume(i) ==
  LET task == tasks[i]
  IN \E tg_ok \in BOOLEAN :
       \* the answer "approved" / "rejected" (lines 211, 215)
       IF task.pc = "ack"
       THEN IF tg_ok THEN after_try(i, TRUE)
            ELSE /\ tasks' = Moved(i, "save_error")
                 /\ last' = Step(PMC, task.user, 0, "save_error", task.track.id, TRUE)
                 /\ faults' = faults + 1
                 /\ reads' = {}
                 /\ UNCHANGED <<tables, sessions, presented>>
       \* the answer of the except branch (line 219)
       ELSE IF task.pc = "save_error"
       THEN IF tg_ok THEN after_try(i, FALSE)
            ELSE /\ tasks' = Remove(i)
                 /\ last' = Step(PMC, task.user, 0, "raise", task.track.id, TRUE)
                 /\ faults' = faults + 1
                 /\ reads' = {}
                 /\ UNCHANGED <<tables, sessions, presented>>
       \* the notification (line 228): its failure is logged
       ELSE IF task.pc = "notify"
       THEN finish(i, ~tg_ok)
       \* the answer "next track" (line 244), then the track itself
       ELSE IF task.pc = "next"
       THEN /\ tasks' = Remove(i)
            /\ IF tg_ok
               THEN \E send_ok \in BOOLEAN :
                      /\ send_moderation_message(PMC, task.user, task.next_track,
                                                 task.next_track.id, send_ok)
                      /\ faults' = faults + Failed(send_ok)
               ELSE /\ last' = Step(PMC, task.user, 0, "raise", task.next_track.id, TRUE)
                    /\ faults' = faults + 1
                    /\ UNCHANGED presented
            /\ reads' = {}
            /\ UNCHANGED <<tables, sessions>>
       \* the answer "track not found" (line 200), then state.clear()
       ELSE /\ tasks' = Remove(i)
            /\ IF tg_ok
               THEN /\ fsm_state' = clear_state(task.user)
                    /\ fsm_data' = clear_data(task.user)
                    /\ last' = Step(PMC, task.user, 0, "none", 0, FALSE)
                    /\ UNCHANGED faults
               ELSE /\ last' = Step(PMC, task.user, 0, "raise", 0, TRUE)
                    /\ faults' = faults + 1
                    /\ UNCHANGED sessions
            /\ reads' = {}
            /\ UNCHANGED <<tables, presented>>

\* ------------------------------------------------------------------ spec
\* the bounds of a specification: rows ever inserted, tasks suspended at
\* once, calls that raised, and the three together
Bounded(max_tracks, max_tasks, max_faults, max_load) ==
  /\ db_seq <= max_tracks
  /\ Len(tasks) <= max_tasks
  /\ faults <= max_faults
  /\ db_seq + Len(tasks) + faults <= max_load

Updates(max_tracks, max_tasks, max_faults, max_load) ==
  \/ \E u \in Users, msg \in Messages :
       cmd_start(u, msg) /\ Bounded(max_tracks, max_tasks, max_faults, max_load)'
  \/ \E u \in Users, msg \in Messages :
       cmd_check(u, msg) /\ Bounded(max_tracks, max_tasks, max_faults, max_load)'
  \/ \E u \in Users, msg \in Messages :
       cmd_moderate(u, msg) /\ Bounded(max_tracks, max_tasks, max_faults, max_load)'
  \/ \E u \in Users, msg \in Messages :
       cmd_tracks(u, msg) /\ Bounded(max_tracks, max_tasks, max_faults, max_load)'
  \/ \E u \in Users, msg \in Messages :
       process_moderation_comment(u, msg) /\ Bounded(max_tracks, max_tasks, max_faults, max_load)'
  \/ \E u \in Users, msg \in Messages :
       /\ msg.audio # NULL => db_seq < MaxAudio
       /\ handle_message(u, msg)
       /\ Bounded(max_tracks, max_tasks, max_faults, max_load)'
  \/ \E u \in Users, id \in presented, a \in {"approve", "reject"} :
       handle_moderation(u, callback_data(a, id))
         /\ Bounded(max_tracks, max_tasks, max_faults, max_load)'
  \/ \E i \in 1..Len(tasks) :
       resume(i) /\ Bounded(max_tracks, max_tasks, max_faults, max_load)'

\* two comments in flight at once, among the first tracks
Next == Updates(MaxRaceTracks, MaxTasks, MaxFaults, MaxLoad)

Spec == Init /\ [][Next]_vars

\* submissions up to and past the limit of a user, one comment in flight
NextLimit == Updates(MaxTracks, 1, MaxFaults, MaxLoad)

SpecLimit == Init /\ [][NextLimit]_vars

\* the event loop runs a suspended task on: every awaited Telegram call
\* returns or raises
Resumes ==
  \E i \in 1..Len(tasks) :
    resume(i) /\ Bounded(MaxRaceTracks, MaxTasks, MaxFaults, MaxLoad)'

\* the moderator asks for the first track of the queue
Moderates ==
  \E msg \in Messages :
    cmd_moderate(MODERATOR_ID, msg) /\ Bounded(MaxRaceTracks, MaxTasks, MaxFaults, MaxLoad)'

\* the moderator presses approve or reject under the presented track id
Presses(id) ==
  \E a \in {"approve", "reject"} :
    /\ id \in presented
    /\ handle_moderation(MODERATOR_ID, callback_data(a, id))
    /\ Bounded(MaxRaceTracks, MaxTasks, MaxFaults, MaxLoad)'

\* the moderator sends the comment the session waits for
Comments ==
  \E msg \in Messages :
    process_moderation_comment(MODERATOR_ID, msg)
      /\ Bounded(MaxRaceTracks, MaxTasks, MaxFaults, MaxLoad)'

\* the moderator keeps moderating and the event loop keeps running
SpecDrain ==
  /\ Init /\ [][Next]_vars
  /\ WF_vars(Resumes)
  /\ WF_vars(Moderates)
  /\ \A id \in 1..MaxRaceTracks : WF_vars(Presses(id))
  /\ WF_vars(Comments)

\* ----------------------------------------------------------------- claims
Range(seq) == {seq[i] : i \in 1..Len(seq)}
Occurrences(seq, x) == Cardinality({i \in 1..Len(seq) : seq[i] = x})
PendingIds == {t.id : t \in pending_tracks}
Submitted == 1..db_seq
Decisions(id) == Occurrences(approved_src, id) + Occurrences(rejected_src, id)

\* C1: no submission is lost: every track that was inserted into
\* pending_tracks is in pending_tracks or has a record in approved_tracks or
\* rejected_tracks; the pending row goes only once its decision is recorded
NoSubmissionLost ==
  \A id \in Submitted :
    id \in PendingIds \cup Range(approved_src) \cup Range(rejected_src)

\* C2: each pending track is decided at most once: at most one record in
\* approved_tracks and rejected_tracks together was made from it
DecidedAtMostOnce == \A id \in Submitted : Decisions(id) <= 1

\* C3: only the moderator decides: a step that adds a record to
\* approved_tracks or rejected_tracks or deletes a row of pending_tracks is
\* a segment of process_moderation_comment run for an update of the
\* moderator, and the session of every other user stays idle
OnlyModeratorDecides ==
  [][/\ (\/ approved_tracks' # approved_tracks
         \/ rejected_tracks' # rejected_tracks
         \/ ~(pending_tracks \subseteq pending_tracks'))
        => \/ \E msg \in Messages : process_moderation_comment(MODERATOR_ID, msg)
           \/ \E i \in 1..Len(tasks) : tasks[i].user = MODERATOR_ID /\ resume(i)
     /\ \A u \in Users \ {MODERATOR_ID} :
          fsm_state'[u] = IDLE /\ fsm_data'[u] = EmptyDict]_vars

\* C3 happens: a decision is recorded, its pending row is deleted, and
\* another user's press of a button has just been refused
OnlyModeratorDecidesWitness ==
  /\ last.h = "handle_moderation" /\ last.reply = "only_moderator"
  /\ \E id \in Range(approved_src) \cup Range(rejected_src) : id \notin PendingIds

\* the ids of the tracks of user u that are pending or approved
TracksOf(u) ==
  {t.id : t \in {p \in pending_tracks : p.user_id = u}}
  \cup {approved_src[i] : i \in {j \in 1..Len(approved_tracks) :
                                  approved_tracks[j].user_hash = hash_user_id(u)}}

\* the pending rows and approved records of user u
PendingAndApproved(u) ==
  Cardinality({p \in pending_tracks : p.user_id = u})
  + Cardinality({j \in 1..Len(approved_tracks) :
                   approved_tracks[j].user_hash = hash_user_id(u)})

LimitKept == \A u \in Users : Cardinality(TracksOf(u)) <= 3

\* C4: per-user limit of 3: no user ever has more than 3 distinct tracks
\* pending or approved, and handle_message inserts a row only when the
\* sender's pending rows and approved records number fewer than 3
PerUserLimit ==
  [][/\ LimitKept'
     /\ db_seq' # db_seq =>
          \A u \in Users, msg \in Messages :
            handle_message(u, msg) => PendingAndApproved(u) < 3]_vars

\* C4 happens: a user with 3 tracks, some approved and some still pending,
\* has just been refused a further one
PerUserLimitWitness ==
  /\ last.h = "handle_message" /\ last.reply = "limit"
  /\ \E u \in Users :
       /\ Cardinality(TracksOf(u)) = 3
       /\ \E t \in pending_tracks : t.user_id = u
       /\ \E i \in 1..Len(approved_tracks) : approved_tracks[i].user_hash = hash_user_id(u)

\* a track: a link or an audio file, sent at or before the deadline
ValidSubmissions ==
  {m \in Messages : (m.audio # NULL \/ m.text = LinkText) /\ m.date.ts <= DEADLINE}

\* user u has a rejected track that is no longer pending
RejectedAndRemoved(u) ==
  \E i \in 1..Len(rejected_tracks) :
    /\ rejected_tracks[i].user_hash = hash_user_id(u)
    /\ rejected_src[i] \notin PendingIds

IsPrefix(a, b) == Len(a) <= Len(b) /\ SubSeq(b, 1, Len(a)) = a

\* C6: an approved track is fixed: no step removes or changes a record of
\* approved_tracks or rejected_tracks, so both tables only grow and a
\* user's approved records never become fewer
DecisionsOnlyGrow ==
  [][/\ IsPrefix(approved_tracks, approved_tracks')
     /\ IsPrefix(rejected_tracks, rejected_tracks')
     /\ \A u \in Users :
          Cardinality({j \in 1..Len(approved_tracks) :
                         approved_tracks[j].user_hash = hash_user_id(u)})
          <= Cardinality({j \in 1..Len(approved_tracks') :
                            approved_tracks'[j].user_hash = hash_user_id(u)})]_vars

\* C6 happens: both tables hold records, and a later decision and the
\* deletion of its pending row have left the earlier records in place
DecisionsOnlyGrowWitness ==
  /\ Len(approved_tracks) + Len(rejected_tracks) >= 2
  /\ Len(approved_tracks) >= 1 /\ Len(rejected_tracks) >= 1
  /\ \A id \in Range(approved_src) \cup Range(rejected_src) : id \notin PendingIds

CopiedColumns == {"user_hash", "type", "file_id", "url", "url_title"}

\* record is the pending row of id src without id, user_id, created_at
CopyOf(record, src) ==
  /\ DOMAIN record = CopiedColumns
  /\ \E t \in pending_tracks :
       /\ t.id = src
       /\ \A k \in CopiedColumns : record[k] = t[k]
       /\ record.user_hash = hash_user_id(t.user_id)

\* C7: anonymity of the decided records: every record of approved_tracks
\* and rejected_tracks has no user_id, id or created_at, and a record is
\* added as the copy of the pending row's user_hash, type and content
DecidedRecordsAnonymous ==
  [][/\ \A r \in Range(approved_tracks') \cup Range(rejected_tracks') :
          DOMAIN r \cap {"user_id", "id", "created_at"} = {}
     /\ \A i \in (Len(approved_tracks) + 1)..Len(approved_tracks') :
          CopyOf(approved_tracks'[i], approved_src'[i])
     /\ \A i \in (Len(rejected_tracks) + 1)..Len(rejected_tracks') :
          CopyOf(rejected_tracks'[i], rejected_src'[i])]_vars

\* C7 happens: an audio file and a link are decided, and a pending row
\* still holds a raw user_id
DecidedRecordsAnonymousWitness ==
  /\ \E r \in Range(approved_tracks) \cup Range(rejected_tracks) : r.type = "audio"
  /\ \E r \in Range(approved_tracks) \cup Range(rejected_tracks) : r.type = "url"
  /\ \E t \in pending_tracks : t.user_id \in Users

\* C8: deadline: a message later than DEADLINE never inserts a row into
\* pending_tracks, handle_message leaves all tables as they are for it, and
\* handle_message never answers a message at or before DEADLINE that the
\* time is over
DeadlineKept ==
  [][/\ pending_tracks' # pending_tracks \/ db_seq' # db_seq
          => \A u \in Users, msg \in Messages :
               msg.date.ts > DEADLINE
               => ~(\/ handle_message(u, msg) \/ process_moderation_comment(u, msg)
                    \/ cmd_start(u, msg) \/ cmd_check(u, msg)
                    \/ cmd_moderate(u, msg) \/ cmd_tracks(u, msg))
     /\ ~(UNCHANGED tables) \/ last'.reply # "deadline"
          => \A u \in Users, msg \in Messages :
               msg.date.ts > DEADLINE => ~handle_message(u, msg)
     /\ last'.reply = "deadline"
          => \A u \in Users, msg \in Messages :
               msg.date.ts <= DEADLINE => ~handle_message(u, msg)]_vars

\* C8 happens: with a track pending, a track sent one second after the
\* deadline has just been refused
DeadlineKeptWitness ==
  /\ last.h = "handle_message" /\ last.reply = "deadline"
  /\ last.ts = DEADLINE + 1
  /\ pending_tracks # {}

\* the pending row with the earliest created_at
Oldest(rows) == CHOOSE t \in rows : \A o \in rows : t.created_at <= o.created_at

\* C9 as stated: every track presented to the moderator is, at the moment
\* it is presented, the pending track with the earliest created_at
PresentsOldestPending ==
  [][last'.reply = "moderation_message"
     => pending_tracks # {} /\ last'.track = Oldest(pending_tracks).id]_vars

\* C9 amended: every track that /moderate or the next-track step takes for
\* presentation is the pending track with the earliest created_at at the
\* moment the handler reads the queue, the track presented is that track,
\* and no track is presented while an older track is still pending
PresentsOldestRead ==
  [][/\ last'.h = "cmd_moderate"
          /\ last'.reply \in {"moderation_message", "moderation_send_error"}
        => pending_tracks # {} /\ last'.track = Oldest(pending_tracks).id
     /\ last'.reply = "next_track"
        => /\ pending_tracks' # {} /\ last'.track = Oldest(pending_tracks').id
           /\ \E i \in 1..Len(tasks') :
                tasks'[i].pc = "next" /\ tasks'[i].next_track = Oldest(pending_tracks')
     /\ last'.h = PMC /\ last'.reply = "moderation_message"
        => \E i \in 1..Len(tasks) :
             /\ tasks[i].pc = "next" /\ tasks[i].next_track.id = last'.track
             /\ tasks' = Remove(i)
             /\ \A t \in pending_tracks : tasks[i].next_track.created_at <= t.created_at
     /\ last'.reply = "moderation_message"
        => /\ last'.track \in presented'
           /\ \A t \in pending_tracks : last'.track <= t.id]_vars

\* C9 happens: after a decision the next track has just been presented
\* while a newer track is pending too
PresentsOldestReadWitness ==
  /\ last.h = PMC /\ last.reply = "moderation_message"
  /\ \E t \in pending_tracks : t.id = last.track
  /\ \E t \in pending_tracks : t.id > last.track

Cleared(u) == fsm_state[u] = IDLE /\ fsm_data[u] = EmptyDict

\* C10: the session has the two states idle and awaiting-comment; it
\* enters awaiting-comment, or changes what it stores, only when the
\* moderator presses approve or reject for a track that is in
\* pending_tracks, storing that track's id and the action; and every
\* segment of process_moderation_comment that ends a run, or goes on to
\* present the next track, leaves the session idle with its data cleared
SessionTwoStates ==
  [][/\ \A u \in Users :
          /\ fsm_state'[u] \in {IDLE, waiting_for_comment}
          /\ fsm_state'[u] = IDLE <=> fsm_data'[u] = EmptyDict
          /\ fsm_state'[u] = waiting_for_comment
               /\ (fsm_state[u] # waiting_for_comment \/ fsm_data'[u] # fsm_data[u])
             => /\ u = MODERATOR_ID
                /\ last'.h = "handle_moderation"
                /\ DOMAIN fsm_data'[u] = {"track_db_id", "action", "user_hash"}
                /\ fsm_data'[u].action \in {"approve", "reject"}
                /\ fsm_data'[u].track_db_id = last'.track
                /\ \E t \in pending_tracks :
                     /\ t.id = fsm_data'[u].track_db_id
                     /\ t.user_hash = fsm_data'[u].user_hash
     /\ last'.h = PMC /\ last'.reply \in {"all_processed", "next_track", "none"}
        => \A i \in 1..Len(tasks) :
             resume(i) => LET u == tasks[i].user
                          IN fsm_state'[u] = IDLE /\ fsm_data'[u] = EmptyDict
     /\ \A i \in 1..Len(tasks) :
          /\ Len(tasks') < Len(tasks) /\ tasks' = Remove(i) /\ ~last'.raised
               /\ last'.reply # "raise"
             => \/ last'.reply \in {"all_processed", "none"}
                \/ tasks[i].pc = "next"
                \/ tasks[i].pc = "notify"]_vars

\* C10 happens: the decision could not be saved, and the run has ended
\* with the session idle
SessionTwoStatesWitness ==
  /\ last.h = PMC /\ last.reply = "all_processed"
  /\ Cleared(MODERATOR_ID)
  /\ \E id \in Submitted : id \notin PendingIds /\ Decisions(id) = 0

\* the record safe_track makes of a pending row is in a table
Recorded(table, track) ==
  \E r \in Range(table) :
    /\ DOMAIN r = CopiedColumns
    /\ \A k \in CopiedColumns : r[k] = track[k]

\* C11: the notification is optional and follows the decision: a
\* notification is sent only by a run whose decision was inserted and
\* acknowledged and whose pending row has a user_id, its kind is the table
\* the run recorded the track in, and when the notification cannot be
\* delivered the run still clears the session and, unless the delete itself
\* raises, removes the row from pending_tracks
NotificationFollowsDecision ==
  [][\A i \in 1..Len(tasks) :
       LET task == tasks[i]
       IN /\ Len(tasks') = Len(tasks) /\ tasks'[i].pc = "notify" /\ task.pc # "notify"
             => /\ task.pc = "ack"
                /\ truthy(task.track.user_id)
                /\ last'.track = task.track.id
                /\ last'.reply \in {"notify_approved", "notify_rejected"}
                /\ last'.reply = "notify_approved"
                     => /\ task.action = "approve"
                        /\ task.track.id \in Range(approved_src)
                        /\ Recorded(approved_tracks, task.track)
                /\ last'.reply = "notify_rejected"
                     => /\ task.action = "reject"
                        /\ task.track.id \in Range(rejected_src)
                        /\ Recorded(rejected_tracks, task.track)
          /\ task.pc = "notify" /\ last'.h = PMC /\ last'.raised
               /\ (tasks' = Remove(i) \/ (Len(tasks') = Len(tasks) /\ tasks'[i].pc = "next"))
             => /\ fsm_state'[task.user] = IDLE
                /\ fsm_data'[task.user] = EmptyDict
                /\ last'.reply \in {"all_processed", "next_track"}
                /\ faults' = faults + 1 => task.track.id \notin {t.id : t \in pending_tracks'}]_vars

\* C11 happens: the notification of an approved track could not be
\* delivered; the row is gone and the session is idle
NotificationFollowsDecisionWitness ==
  /\ last.h = PMC /\ last.raised /\ last.reply = "all_processed"
  /\ pending_tracks = {} /\ db_seq >= 1
  /\ Cleared(MODERATOR_ID)
  /\ approved_src # <<>>

\* what a refusal leaves as it is: the three tables and every session
Refused ==
  /\ UNCHANGED <<pending_tracks, approved_tracks, rejected_tracks>>
  /\ UNCHANGED <<fsm_state, fsm_data>>
  /\ reads' = {}

\* C12: the sender's role is validated before anything is read or changed:
\* /check, /moderate, /tracks and a press of approve or reject by a user
\* who is not the moderator are refused, leave pending_tracks,
\* approved_tracks, rejected_tracks and every session as they are, and send
\* no select to a table
RoleCheckedFirst ==
  [][\A u \in Users \ {MODERATOR_ID} :
       /\ last'.h \in {"cmd_check", "cmd_moderate", "cmd_tracks"}
          => \A msg \in Messages :
               cmd_check(u, msg) \/ cmd_moderate(u, msg) \/ cmd_tracks(u, msg)
                 => Refused /\ last'.reply = "no_rights"
       /\ last'.h = "handle_moderation"
          => \A id \in presented, a \in {"approve", "reject"} :
               handle_moderation(u, callback_data(a, id))
                 => Refused /\ last'.reply = "only_moderator"]_vars

\* C12 happens: a user who is not the moderator has pressed a button of a
\* pending track while the moderator's session awaits a comment
RoleCheckedFirstWitness ==
  /\ last.h = "handle_moderation" /\ last.reply = "only_moderator"
  /\ reads = {}
  /\ pending_tracks # {}
  /\ fsm_state[MODERATOR_ID] = waiting_for_comment

\* C13: stale decisions are refused without effect: a press of approve or
\* reject by the moderator for a track id that is not in pending_tracks
\* leaves the session and the tables as they are; a comment whose stored
\* track id is not found in pending_tracks adds no record to
\* approved_tracks or rejected_tracks, and its run sends no notification
\* and presents no next track; a comment is taken as a decision only for a
\* track that is in pending_tracks
StaleDecisionsRefused ==
  [][/\ last'.h = "handle_moderation"
        => \A id \in presented \ PendingIds, a \in {"approve", "reject"} :
             handle_moderation(MODERATOR_ID, callback_data(a, id))
               => /\ UNCHANGED <<fsm_state, fsm_data>>
                  /\ UNCHANGED tables
                  /\ last'.reply = "track_not_found"
     /\ Len(tasks') = Len(tasks) + 1
        => LET task == tasks'[Len(tasks')]
               track_db_id == fsm_data[task.user].track_db_id
           IN /\ track_db_id \notin PendingIds \/ last'.reply = "track_not_found"
                 => /\ task.pc = "not_found"
                    /\ last'.reply = "track_not_found"
                    /\ UNCHANGED <<tables, presented>>
              /\ task.pc # "not_found"
                 => track_db_id \in PendingIds /\ task.track.id = track_db_id
     /\ \A i \in 1..Len(tasks) :
          tasks[i].pc = "not_found" /\ resume(i)
            => /\ tasks' = Remove(i)
               /\ UNCHANGED <<tables, presented>>
               /\ last'.reply \in {"none", "raise"}]_vars

\* C13 happens: while the session awaits the comment for one track, the
\* moderator has pressed a button of a track that is already decided and
\* gone from pending_tracks
StaleDecisionsRefusedWitness ==
  /\ last.h = "handle_moderation" /\ last.reply = "track_not_found"
  /\ last.track \notin PendingIds
  /\ Decisions(last.track) >= 1
  /\ fsm_state[MODERATOR_ID] = waiting_for_comment
  /\ fsm_data[MODERATOR_ID].track_db_id \in PendingIds

\* the answers that tell the moderator the queue is empty
EmptyAnswers == {"nothing_pending", "nothing_to_moderate", "all_processed"}

\* C14: the moderator is told the queue is empty only when it is: after
\* /check or /moderate has answered that there are no tracks, or the step
\* after a decision that all tracks are processed, pending_tracks holds no
\* track, also when the database read has failed
EmptyToldOnlyWhenEmpty ==
  last.h \in {"cmd_check", "cmd_moderate", PMC} /\ last.reply \in EmptyAnswers
    => pending_tracks = {}

\* the queue is empty and the moderator has been told so
Drained ==
  /\ pending_tracks = {}
  /\ last.h = PMC /\ last.reply = "all_processed"

\* C15: the queue drains: when no call fails, and the moderator keeps
\* pressing approve or reject under the presented tracks and sending the
\* comment, a pending track leads to pending_tracks being empty with the
\* moderator told that all tracks are processed, and then every track that
\* was pending has exactly one record in approved_tracks and rejected_tracks
\* together
QueueDrains ==
  [](faults = 0)
    => /\ (pending_tracks # {}) ~> Drained
       /\ [](Drained => \A id \in Submitted : Decisions(id) = 1)
====
